---- MODULE Spec2Model ----
(***************************************************************************)
(* Model of the three-stage generation pipeline (text -> panorama ->       *)
(* layers -> mesh): the theme derivation of the drivers and the front-end, *)
(* the sequential driver run_all_steps with its SageMaker processing jobs, *)
(* the main() of the three stage runners with their local directories and  *)
(* the object store, the registry table with its writer and its reader,    *)
(* and the front-end's generate and status requests.                       *)
(*                                                                         *)
(* Strings that the code inspects character by character (prompts, themes) *)
(* are sequences of one-character strings.  Object keys are sequences of   *)
(* path segments: the key "3dworlds/T/layers/x" is <<"3dworlds",T,         *)
(* "layers","x">>, a prefix ending in "/" is the sequence of its segments. *)
(***************************************************************************)
EXTENDS Integers, Sequences, FiniteSets, TLC

VARIABLES
    \* --- theme derivation (run_all_steps, start_execution, generate_world)
    tPrompt,    \* the prompt handed to the deriving function
    tArg,       \* the caller-supplied theme (<<>> when none)
    tWho,       \* which function derived tTheme ("none" before)
    tTheme      \* the derived theme

VARIABLES
    \* --- the sequential driver run_all_steps and its processing jobs
    dPc,        \* position of run_all_steps
    dPrompt,    \* its prompt argument
    dThemeArg,  \* its theme argument (<<>> when none)
    dRole,      \* TRUE iff a role_arn was supplied
    dEcr,       \* TRUE iff an ecr_image_uri was supplied
    dTheme,     \* its local variable theme
    dStatus,    \* the status last read by the running poll loop
    dResults,   \* the results dict: stage -> <<job, output>>
    dErr,       \* the exception that ended the run ("none" if none)
    jobs        \* the processing jobs created so far, in creation order

VARIABLES
    \* --- one stage runner process (main of step1/2/3) and the object store
    sInv,       \* number of stage runner processes started so far
    sPc,        \* position of the running main ("idle", ..., "done", "failed")
    sArgs,      \* its parsed arguments
    inputDir,   \* the files in args.input_dir
    outputDir,  \* the files in args.output_dir
    heavy,      \* the model object: "none", "loaded" or "released"
    sCalls,     \* number of external processing calls made by this process
    sErr,       \* the exception that ended the process
    toUpload,   \* the files the upload loop has not reached yet
    store,      \* the bucket: key -> the object's last writer (process number,
                \* stage, theme, --s3_prefix) and how often it was written
    uploads     \* the upload_file calls the running process has made

VARIABLES
    \* --- the registry table, its writer (lambda_handler) and reader (GET /worlds)
    registry,   \* the table: Id -> item (a flat map from attribute to value)
    minted,     \* the ids uuid4 has returned so far
    wCalls,     \* number of lambda_handler calls so far
    wOk,        \* number of lambda_handler calls that returned 200
    wEvent,     \* the event of the last call
    wResp,      \* the response of the last call
    gScan,      \* the response table.scan() gave the last GET /worlds, and
                \* the pointers for which signing raised
    gResp       \* the response of the last GET /worlds (both since the last
                \* lambda_handler call)

VARIABLES
    \* --- the front-end's POST /generate and GET /status/{execution_id}
    clock,      \* int(time.time())
    fHandles,   \* the execution ids POST /generate has returned
    fReq,       \* the last request
    fResp       \* the last response

VARIABLES
    \* --- the workflow engine and the script start_execution
    executions, \* the executions started so far: name -> status
    ePc,        \* position of start_execution
    eName,      \* the execution id it minted
    eStatus     \* the status last read by its poll loop

VARIABLES
    \* --- the components' module load (backend app, routers, lambda_handler)
    env,        \* the environment variables that are set
    loaded,     \* component -> "unloaded", "serving" or "failed"
    served      \* the components that have answered a request

VARIABLES
    \* --- pipeline runs (run_all_steps) that run at the same time
    runs        \* run -> its position, prompt, theme, job name, staged input

tvars == <<tPrompt, tArg, tWho, tTheme>>
rvars == <<registry, minted, wCalls, wOk, wEvent, wResp, gScan, gResp>>
fvars == <<clock, fHandles, fReq, fResp>>
svars == <<sInv, sPc, sArgs, inputDir, outputDir, heavy, sCalls, sErr, toUpload,
           store, uploads>>
dvars == <<dPc, dPrompt, dThemeArg, dRole, dEcr, dTheme, dStatus, dResults, dErr,
           jobs>>
evars == <<executions, ePc, eName, eStatus>>
bvars == <<env, loaded, served>>
cvars == <<runs>>

vars == <<tPrompt, tArg, tWho, tTheme,
          dPc, dPrompt, dThemeArg, dRole, dEcr, dTheme, dStatus, dResults, dErr,
          jobs,
          sInv, sPc, sArgs, inputDir, outputDir, heavy, sCalls, sErr, toUpload,
          store, uploads,
          registry, minted, wCalls, wOk, wEvent, wResp, gScan, gResp,
          clock, fHandles, fReq, fResp,
          executions, ePc, eName, eStatus,
          env, loaded, served,
          runs>>

----------------------------------------------------------------------------
\* Bounds of the model.

\* Longest run of the padding character in a generated prompt.
MaxPad == 21
\* Number of arbitrary characters around the padding, before and after it
\* together.
MaxExtra == 2
\* Number of stage runner processes started in one behaviour.
MaxInvocations == 2
\* Largest number of mesh layers the external composer returns.
MaxMeshLayers == 1
\* Number of pipeline runs (stage 1, stage 2, stage 3) in one behaviour.
MaxRuns == 1
\* Number of Registry Writer calls in one behaviour.
MaxCalls == 2
\* Longest ply_uris list of an event.
MaxPlyUris == 5
\* Largest reading of the front-end's clock.
MaxClock == 2

----------------------------------------------------------------------------
\* Characters.

LowerChars == {"a", "b", "c", "d", "e", "k", "l", "m", "o", "r", "w"}
UpperChars == {"A", "B"}
DigitChars == {"0"}
\* U+212A KELVIN SIGN: not in [A-Z], but str.lower() maps it to ASCII "k".
KelvinSign == "KELVIN"

\* The characters prompts are drawn from: a lower-case letter, an upper-case
\* letter, a digit, the two separators, a blank, punctuation, the Kelvin sign.
Alphabet == {"a", "A", "0", "_", "-", " ", "!", KelvinSign}

Min(a, b) == IF a < b THEN a ELSE b

\* n copies of the character c.
Rep(c, n) == [i \in 1..n |-> c]

\* All sequences over S of length at most n.
SeqsUpTo(S, n) == UNION {[1..k -> S] : k \in 0..n}

\* str.lower(), one character.
ToLower(c) ==
    CASE c = "A" -> "a"
      [] c = "B" -> "b"
      [] c = KelvinSign -> "k"
      [] OTHER -> c

\* str.lower()
StrLower(s) == [i \in 1..Len(s) |-> ToLower(s[i])]

\* s[:n]
Slice(s, n) == SubSeq(s, 1, Min(Len(s), n))

\* The character class [a-z0-9].
IsLowerAlnum(c) == c \in LowerChars \cup DigitChars

\* The character class [a-zA-Z0-9].
IsAlnum(c) == c \in LowerChars \cup UpperChars \cup DigitChars

RECURSIVE DropDisallowed(_)
\* The rest of s after its leading run of characters outside [a-z0-9].
DropDisallowed(s) ==
    IF s = <<>> \/ IsLowerAlnum(Head(s)) THEN s ELSE DropDisallowed(Tail(s))

RECURSIVE ReSubRuns(_)
\* re.sub(r'[^a-z0-9]+', '_', s): every maximal run of characters outside
\* [a-z0-9] becomes one "_".
ReSubRuns(s) ==
    IF s = <<>> THEN <<>>
    ELSE IF IsLowerAlnum(Head(s)) THEN <<Head(s)>> \o ReSubRuns(Tail(s))
    ELSE <<"_">> \o ReSubRuns(DropDisallowed(s))

RECURSIVE LStrip(_, _)
LStrip(s, c) == IF s # <<>> /\ Head(s) = c THEN LStrip(Tail(s), c) ELSE s

RECURSIVE RStrip(_, _)
RStrip(s, c) ==
    IF s # <<>> /\ s[Len(s)] = c THEN RStrip(SubSeq(s, 1, Len(s) - 1), c) ELSE s

\* str.strip(c)
Strip(s, c) == RStrip(LStrip(s, c), c)

\* The slice length of the slugified theme.
ThemeMaxLen == 20

\* Variant of the derivation that trims before it truncates (used to test
\* that the idempotence property depends on the order of the two).
SlugifyTheme_TrimFirst(prompt) ==
    Slice(Strip(ReSubRuns(StrLower(prompt)), "_"), ThemeMaxLen)

\* re.sub(r'[^a-z0-9]+', '_', prompt.lower())[:20].strip('_')
SlugifyTheme(prompt) ==
    Strip(Slice(ReSubRuns(StrLower(prompt)), ThemeMaxLen), "_")

\* Python truthiness of a str (None and "" are both falsy; both are <<>>).
Truthy(s) == s # <<>>

\* run_all_steps: "if not theme: theme = <slugified prompt>"
RunAllStepsTheme(prompt, theme) ==
    IF ~Truthy(theme) THEN SlugifyTheme(prompt) ELSE theme

\* start_execution: "if not theme: theme = <slugified prompt>"
StartExecutionTheme(prompt, theme) ==
    IF ~Truthy(theme) THEN SlugifyTheme(prompt) ELSE theme

\* re.sub(r'[^a-zA-Z0-9]', '', s)
RECURSIVE RemoveNonAlnum(_)
RemoveNonAlnum(s) ==
    IF s = <<>> THEN <<>>
    ELSE IF IsAlnum(Head(s)) THEN <<Head(s)>> \o RemoveNonAlnum(Tail(s))
    ELSE RemoveNonAlnum(Tail(s))

\* The number of leading prompt characters the mock front-end looks at.
MockPromptChars == 10

MockPrefix == <<"m", "o", "c", "k", "-">>
MockWorld == <<"m", "o", "c", "k", "-", "w", "o", "r", "l", "d">>

\* generate_world (mock): theme = "mock-world", or "mock-" + the lower-cased
\* alphanumerics of the first 10 prompt characters when there are any.
GenerateWorldTheme(prompt_ja) ==
    LET clean_prompt == RemoveNonAlnum(Slice(prompt_ja, MockPromptChars))
    IN  IF Len(prompt_ja) > 0 /\ Truthy(clean_prompt)
        THEN MockPrefix \o StrLower(clean_prompt)
        ELSE MockWorld

----------------------------------------------------------------------------
\* Specification of the theme derivation: a prompt and an optional
\* caller-supplied theme are drawn, then one of the three functions derives.

\* The prompts: a run of up to MaxPad letters with up to MaxExtra arbitrary
\* characters, split between its front and its back.
Prompts ==
    UNION {{SubSeq(x, 1, k) \o Rep("a", n) \o SubSeq(x, k + 1, Len(x)) :
                k \in 0..Len(x), n \in 0..MaxPad} :
           x \in SeqsUpTo(Alphabet, MaxExtra)}

Demo == <<"d", "e", "m", "o">>

\* Caller-supplied themes: none, or the stage scripts' default name.
ThemeArgs == {<<>>, Demo}

\* No theme derivation, no driver run (the parts a specification leaves out).
ThemeIdle == tPrompt = <<>> /\ tArg = <<>> /\ tWho = "none" /\ tTheme = <<>>

DriverIdle ==
    /\ dPc = "idle" /\ dPrompt = <<>> /\ dThemeArg = <<>> /\ dRole = FALSE
    /\ dEcr = FALSE
    /\ dTheme = <<>> /\ dStatus = "none" /\ dResults = <<>> /\ dErr = "none"
    /\ jobs = <<>>

NoEvent == [absent |-> TRUE]
NoResponse == [statusCode |-> 0]

RegistryIdle ==
    /\ registry = <<>> /\ minted = {} /\ wCalls = 0 /\ wOk = 0
    /\ wEvent = NoEvent
    /\ wResp = NoResponse /\ gScan = NoResponse /\ gResp = NoResponse

FrontEndIdle ==
    /\ clock = 0 /\ fHandles = {} /\ fReq = NoEvent /\ fResp = NoResponse

EngineIdle == executions = <<>> /\ ePc = "idle" /\ eName = <<>> /\ eStatus = "none"

StartupIdle == env = {} /\ loaded = <<>> /\ served = {}

RunsIdle == runs = <<>>

\* No execution, no module load, no concurrent runs.
OthersIdle == EngineIdle /\ StartupIdle /\ RunsIdle

NoArgs == [stage |-> 0, theme |-> <<>>, s3_bucket |-> FALSE, s3_prefix |-> <<>>,
           export_drc |-> FALSE, classes |-> "none"]
NoError == [type |-> "none", name |-> "none"]

StageIdle ==
    /\ sInv = 0 /\ sPc = "idle" /\ sArgs = NoArgs /\ inputDir = {}
    /\ outputDir = {} /\ heavy = "none" /\ sCalls = 0 /\ sErr = NoError
    /\ toUpload = {} /\ store = <<>> /\ uploads = {}

ThemeInit ==
    /\ tPrompt \in Prompts
    /\ tArg \in ThemeArgs
    /\ tWho = "none"
    /\ tTheme = <<>>
    /\ DriverIdle
    /\ StageIdle
    /\ RegistryIdle
    /\ FrontEndIdle
    /\ OthersIdle

\* run_all_steps, lines 48-51
DeriveRunAllSteps ==
    /\ tWho = "none"
    /\ tTheme' = RunAllStepsTheme(tPrompt, tArg)
    /\ tWho' = "run_all_steps"
    /\ UNCHANGED <<tPrompt, tArg>>
    /\ UNCHANGED <<dvars, svars, rvars, fvars, evars, bvars, cvars>>

\* start_execution, lines 39-42
DeriveStartExecution ==
    /\ tWho = "none"
    /\ tTheme' = StartExecutionTheme(tPrompt, tArg)
    /\ tWho' = "start_execution"
    /\ UNCHANGED <<tPrompt, tArg>>
    /\ UNCHANGED <<dvars, svars, rvars, fvars, evars, bvars, cvars>>

\* generate_world, lines 56-62 (the request carries no theme)
DeriveGenerateWorld ==
    /\ tWho = "none"
    /\ tArg = <<>>
    /\ tTheme' = GenerateWorldTheme(tPrompt)
    /\ tWho' = "generate_world"
    /\ UNCHANGED <<tPrompt, tArg>>
    /\ UNCHANGED <<dvars, svars, rvars, fvars, evars, bvars, cvars>>

ThemeNext ==
    \/ DeriveRunAllSteps
    \/ DeriveStartExecution
    \/ DeriveGenerateWorld

SpecTheme == ThemeInit /\ [][ThemeNext]_vars

\* The identifier character set of a theme: [a-z0-9-].
ThemeCharset == LowerChars \cup DigitChars \cup {"-"}

\* C9: for every prompt, the theme derived from it by run_all_steps, by
\* start_execution and by generate_world is non-empty and consists of
\* lower-case alphanumerics and hyphens only.
C9_DerivedThemeCharset ==
    (tWho # "none" /\ tArg = <<>>) =>
        /\ tTheme # <<>>
        /\ \A i \in 1..Len(tTheme) : tTheme[i] \in ThemeCharset

\* C10: the slugify-and-truncate derivation of run_all_steps and
\* start_execution is idempotent: deriving again from a derived theme
\* returns that theme.
C10_SlugifyIdempotent ==
    (tWho \in {"run_all_steps", "start_execution"} /\ tArg = <<>>) =>
        SlugifyTheme(tTheme) = tTheme

\* A derivation that both truncated and trimmed: the slugified prompt was
\* longer than the slice, and the slice ended in a separator.
C10_Witness ==
    /\ tWho = "run_all_steps"
    /\ tArg = <<>>
    /\ Len(ReSubRuns(StrLower(tPrompt))) > ThemeMaxLen
    /\ tTheme # <<>>
    /\ Len(tTheme) < ThemeMaxLen

\* C11: the theme derivation of generate_world is idempotent: applied to a
\* theme it has produced, it returns that theme unchanged.
C11_FrontEndIdempotent ==
    tWho = "generate_world" => GenerateWorldTheme(tTheme) = tTheme

----------------------------------------------------------------------------
\* The sequential driver run_all_steps and the processing jobs it creates.
\* A job name is "<stage name>-<clock>"; the clock suffix is left out here.

DefaultBucket == "team11-data-source"

\* f"s3://{s3_bucket}/{prefix}"
S3Uri(bucket, prefix) == <<"s3://", bucket>> \o prefix

\* f"3dworlds/{theme}/"
ThemePrefix(theme) == <<"3dworlds", theme>>

\* f"3dworlds/{theme}/layers/"
LayersPrefix(theme) == <<"3dworlds", theme, "layers">>

\* Variant of the poll loop's exit test that only leaves on "Completed".
JobTerminal_CompletedOnly == {"Completed"}

\* Variant of the poll loop's exit test that also leaves on "InProgress".
JobTerminal_NoWait == {"Completed", "Failed", "Stopped", "InProgress"}

\* The statuses on which the poll loop of run_step1/2/3 breaks.
JobTerminal == {"Completed", "Failed", "Stopped"}

\* The prompts of the driver runs: themes "a", "a_b" and "" are derived.
DriverPrompts == {<<"a">>, <<"a", " ", "b">>, <<"!">>}

\* The prompt of the runs of which only the calls and loops are followed.
PollPrompts == {<<"a">>}

DriverInit ==
    /\ dPc = "start"
    /\ dPrompt \in DriverPrompts
    /\ dThemeArg \in ThemeArgs
    /\ dRole \in BOOLEAN
    /\ dEcr \in BOOLEAN
    /\ dTheme = dThemeArg
    /\ dStatus = "none"
    /\ dResults = <<>>
    /\ dErr = "none"
    /\ jobs = <<>>
    /\ ThemeIdle
    /\ StageIdle
    /\ RegistryIdle
    /\ FrontEndIdle
    /\ OthersIdle

\* run_all_steps, lines 48-68: the theme is derived when none was given.
RunAllStepsStart ==
    /\ dPc = "start"
    /\ dTheme' = RunAllStepsTheme(dPrompt, dThemeArg)
    /\ dPc' = "step1"
    /\ UNCHANGED <<dPrompt, dThemeArg, dRole, dEcr, dStatus, dResults, dErr, jobs>>
    /\ UNCHANGED <<tvars, svars, rvars, fvars, evars, bvars, cvars>>

\* Variant that looks at the role only after the job is created.
CreateJob_RoleCheckedLate(at, pollAt, job) ==
    /\ dPc = at
    /\ \/ /\ ~dEcr
          /\ dErr' = "ClientError"
          /\ dPc' = "raised"
          /\ UNCHANGED <<jobs, dStatus>>
       \/ \E accepted \in BOOLEAN :
            IF accepted
            THEN /\ jobs' = Append(jobs, job)
                 /\ dStatus' = "none"
                 /\ dPc' = IF dRole THEN pollAt ELSE "raised"
                 /\ dErr' = IF dRole THEN dErr ELSE "ValueError"
            ELSE /\ dErr' = "ClientError"
                 /\ dPc' = "raised"
                 /\ UNCHANGED <<jobs, dStatus>>
    /\ UNCHANGED <<dPrompt, dThemeArg, dRole, dEcr, dTheme, dResults>>
    /\ UNCHANGED <<tvars, svars, rvars, fvars, evars, bvars, cvars>>

\* The part of run_step1/2/3 up to and including create_processing_job:
\* without an ecr_image_uri the account is looked up first (the call may
\* raise); then ValueError without a role, else the job is created (the API
\* call may raise), and the poll loop is entered.
CreateJob(at, pollAt, job) ==
    /\ dPc = at
    /\ \/ /\ ~dEcr
          /\ dErr' = "ClientError"
          /\ dPc' = "raised"
          /\ UNCHANGED <<jobs, dStatus>>
       \/ IF ~dRole
          THEN /\ dErr' = "ValueError"
               /\ dPc' = "raised"
               /\ UNCHANGED <<jobs, dStatus>>
          ELSE \E accepted \in BOOLEAN :
               IF accepted
               THEN /\ jobs' = Append(jobs, job)
                    /\ dStatus' = "none"
                    /\ dPc' = pollAt
                    /\ dErr' = dErr
               ELSE /\ dErr' = "ClientError"
                    /\ dPc' = "raised"
                    /\ UNCHANGED <<jobs, dStatus>>
    /\ UNCHANGED <<dPrompt, dThemeArg, dRole, dEcr, dTheme, dResults>>
    /\ UNCHANGED <<tvars, svars, rvars, fvars, evars, bvars, cvars>>

\* The processing job run_step1 creates, lines 59-110.
Step1Job(theme) ==
    [name |-> "step1-text2pano", stage |-> 1,
     entry |-> "step1_text2pano.py", theme |-> theme,
     input |-> <<>>,
     output |-> S3Uri(DefaultBucket, ThemePrefix(theme)),
     status |-> "InProgress"]

\* The processing job run_step2 creates, lines 60-131.
Step2Job(theme) ==
    [name |-> "step2-decompose", stage |-> 2,
     entry |-> "step2_decompose.py", theme |-> theme,
     input |-> S3Uri(DefaultBucket, ThemePrefix(theme)),
     output |-> S3Uri(DefaultBucket, LayersPrefix(theme)),
     status |-> "InProgress"]

\* The processing job run_step3 creates, lines 53-122.
Step3Job(theme) ==
    [name |-> "step3-compose", stage |-> 3,
     entry |-> "step3_compose.py", theme |-> theme,
     input |-> S3Uri(DefaultBucket, LayersPrefix(theme)),
     output |-> S3Uri(DefaultBucket, ThemePrefix(theme)),
     status |-> "InProgress"]

\* run_step1(prompt, theme, ...), lines 36-110
RunStep1(theme) == CreateJob("step1", "poll1", Step1Job(theme))

\* run_step2(theme, ...), lines 36-130
RunStep2(theme) == CreateJob("step2", "poll2", Step2Job(theme))

\* run_step3(theme, ...), lines 35-121
RunStep3(theme) == CreateJob("step3", "poll3", Step3Job(theme))

\* Variant that returns the job name and the output uri for every final
\* status.
ReadJobStatus_AlwaysPair(at, next) ==
    /\ dPc = at
    /\ LET job == jobs[Len(jobs)]
           status == job.status
       IN  /\ dStatus' = status
           /\ IF status \in {"Completed", "Failed", "Stopped"}
              THEN /\ dResults' = Append(dResults,
                         [job |-> job.name, output |-> job.output])
                   /\ dPc' = next
              ELSE /\ UNCHANGED <<dResults, dPc>>
    /\ UNCHANGED <<dPrompt, dThemeArg, dRole, dEcr, dTheme, dErr, jobs>>
    /\ UNCHANGED <<tvars, svars, rvars, fvars, evars, bvars, cvars>>

\* One iteration in which describe_processing_job returns the job's status:
\* the loop goes on, or it breaks and run_step1/2/3 returns, and
\* run_all_steps assigns the returned pair to results[stage]:
\* (job_name, output_uri) when the last status read is Completed,
\* (None, None) otherwise.  None is "None" for the job name and <<>> for
\* the uri.
ReadJobStatus(at, next) ==
    /\ dPc = at
    /\ LET job == jobs[Len(jobs)]
           status == job.status
       IN  /\ dStatus' = status
           /\ IF status \in JobTerminal
              THEN /\ dResults' = Append(dResults,
                         IF status # "Completed"
                         THEN [job |-> "None", output |-> <<>>]
                         ELSE [job |-> job.name, output |-> job.output])
                   /\ dPc' = next
              ELSE /\ UNCHANGED <<dResults, dPc>>
    /\ UNCHANGED <<dPrompt, dThemeArg, dRole, dEcr, dTheme, dErr, jobs>>
    /\ UNCHANGED <<tvars, svars, rvars, fvars, evars, bvars, cvars>>

\* One iteration in which describe_processing_job raises: the exception
\* leaves run_step1/2/3 and run_all_steps.
DescribeJobRaises(at) ==
    /\ dPc = at
    /\ dErr' = "ClientError"
    /\ dPc' = "raised"
    /\ UNCHANGED <<dPrompt, dThemeArg, dRole, dEcr, dTheme, dStatus, dResults, jobs>>
    /\ UNCHANGED <<tvars, svars, rvars, fvars, evars, bvars, cvars>>

\* The poll loop of run_step1/2/3, one iteration.
WaitForJob(at, next) == ReadJobStatus(at, next) \/ DescribeJobRaises(at)

\* Variant of the second call that leaves the theme argument out, so that
\* run_step2 falls back to its default theme.
CallRunStep2_DefaultTheme == RunStep2(Demo)

\* run_all_steps, lines 74-83
CallRunStep1 == RunStep1(dTheme)
\* run_all_steps, lines 90-100
CallRunStep2 == RunStep2(dTheme)
\* run_all_steps, lines 107-115
CallRunStep3 == RunStep3(dTheme)

\* run_step1, lines 112-150, and run_all_steps, line 84
WaitStep1 == WaitForJob("poll1", "step2")
\* run_step2, lines 133-167, and run_all_steps, line 101
WaitStep2 == WaitForJob("poll2", "step3")
\* run_step3, lines 124-158, and run_all_steps, line 116
WaitStep3 == WaitForJob("poll3", "summary")

\* run_all_steps, lines 118-139: the summary is printed, results returned.
RunAllStepsSummary ==
    /\ dPc = "summary"
    /\ dPc' = "done"
    /\ UNCHANGED <<dPrompt, dThemeArg, dRole, dEcr, dTheme, dStatus, dResults, dErr, jobs>>
    /\ UNCHANGED <<tvars, svars, rvars, fvars, evars, bvars, cvars>>

\* The processing service ends a job: it completes, fails, or is stopped
\* (also at its MaxRuntimeInSeconds).
JobEnds ==
    /\ \E i \in 1..Len(jobs), st \in {"Completed", "Failed", "Stopped"} :
          /\ jobs[i].status = "InProgress"
          /\ jobs' = [jobs EXCEPT ![i].status = st]
    /\ UNCHANGED <<dPc, dPrompt, dThemeArg, dRole, dEcr, dTheme, dStatus, dResults, dErr>>
    /\ UNCHANGED <<tvars, svars, rvars, fvars, evars, bvars, cvars>>

DriverNext ==
    \/ RunAllStepsStart
    \/ CallRunStep1
    \/ WaitStep1
    \/ CallRunStep2
    \/ WaitStep2
    \/ CallRunStep3
    \/ WaitStep3
    \/ RunAllStepsSummary
    \/ JobEnds

SpecDriver == DriverInit /\ [][DriverNext]_vars

\* ---- run_step1, run_step2 and run_step3 called on their own (the main of
\* each script), next to run_all_steps

\* main of run_step1.py / run_step2.py / run_step3.py: the call
MainRunStep1 == CreateJob("main1", "wait1", Step1Job(dTheme))
MainRunStep2 == CreateJob("main2", "wait2", Step2Job(dTheme))
MainRunStep3 == CreateJob("main3", "wait3", Step3Job(dTheme))

\* ... and its poll loop and return
MainWait1 == WaitForJob("wait1", "done")
MainWait2 == WaitForJob("wait2", "done")
MainWait3 == WaitForJob("wait3", "done")

\* One call: of run_all_steps with a prompt, or of a single run_stepN with
\* the script's default theme.
RunnersInit ==
    /\ dPc \in {"start", "main1", "main2", "main3"}
    /\ dPrompt \in PollPrompts
    /\ dThemeArg = (IF dPc = "start" THEN <<>> ELSE Demo)
    /\ dRole \in BOOLEAN
    /\ dEcr \in BOOLEAN
    /\ dTheme = dThemeArg
    /\ dStatus = "none"
    /\ dResults = <<>>
    /\ dErr = "none"
    /\ jobs = <<>>
    /\ ThemeIdle
    /\ StageIdle
    /\ RegistryIdle
    /\ FrontEndIdle
    /\ OthersIdle

RunnersNext ==
    \/ RunAllStepsStart
    \/ CallRunStep1
    \/ WaitStep1
    \/ CallRunStep2
    \/ WaitStep2
    \/ CallRunStep3
    \/ WaitStep3
    \/ RunAllStepsSummary
    \/ JobEnds
    \/ MainRunStep1
    \/ MainWait1
    \/ MainRunStep2
    \/ MainWait2
    \/ MainRunStep3
    \/ MainWait3

SpecRunners == RunnersInit /\ [][RunnersNext]_vars

\* ---- the script start_execution and the workflow engine

\* The decimal digits of a timestamp, as an f-string formats it.
TimeStr(timestamp) ==
    CASE timestamp = 0 -> "0" [] timestamp = 1 -> "1" [] timestamp = 2 -> "2"
      [] timestamp = 3 -> "3" [] timestamp = 4 -> "4" [] OTHER -> "N"

\* f"{theme}-{int(time.time())}"
ExecutionId(theme, timestamp) == theme \o <<"-", TimeStr(timestamp)>>

\* The statuses on which the poll loop of start_execution breaks.
ExecutionTerminal == {"SUCCEEDED", "FAILED", "TIMED_OUT", "ABORTED"}

\* start_execution, lines 36-88: theme and execution id, the account lookup
\* and sfn.start_execution (either may raise; a name that is in use is
\* refused), then the poll loop is entered.
StartExecution ==
    /\ ePc = "start"
    /\ \E prompt \in PollPrompts, theme \in ThemeArgs :
          LET execution_id ==
                  ExecutionId(StartExecutionTheme(prompt, theme), clock)
          IN  /\ eName' = execution_id
              /\ \/ /\ execution_id \notin DOMAIN executions
                    /\ executions' =
                          [n \in DOMAIN executions \cup {execution_id} |->
                              IF n = execution_id THEN "RUNNING"
                              ELSE executions[n]]
                    /\ ePc' = "poll"
                 \/ /\ ePc' = "raised"
                    /\ UNCHANGED executions
    /\ UNCHANGED eStatus
    /\ UNCHANGED <<tvars, dvars, svars, rvars, fvars, bvars, cvars>>

\* start_execution, lines 94-104 and 106-134: one iteration of the loop in
\* which describe_execution returns the status; on a terminal status the
\* loop breaks and the function returns (execution_arn, status).
ReadExecutionStatus ==
    /\ ePc = "poll"
    /\ eStatus' = executions[eName]
    /\ ePc' = IF eStatus' \in ExecutionTerminal THEN "returned" ELSE "poll"
    /\ UNCHANGED <<executions, eName>>
    /\ UNCHANGED <<tvars, dvars, svars, rvars, fvars, bvars, cvars>>

\* One iteration in which describe_execution raises.
DescribeExecutionRaises ==
    /\ ePc = "poll"
    /\ ePc' = "raised"
    /\ UNCHANGED <<executions, eName, eStatus>>
    /\ UNCHANGED <<tvars, dvars, svars, rvars, fvars, bvars, cvars>>

\* The workflow engine ends an execution.
ExecutionEnds ==
    /\ \E n \in DOMAIN executions, st \in ExecutionTerminal :
          /\ executions[n] = "RUNNING"
          /\ executions' = [executions EXCEPT ![n] = st]
    /\ UNCHANGED <<ePc, eName, eStatus>>
    /\ UNCHANGED <<tvars, dvars, svars, rvars, fvars, bvars, cvars>>

\* ---- the poll loops: one run_all_steps and one start_execution, each in
\* its own process, with the services that end their job and execution.

PollingInit ==
    /\ dPc = "start"
    /\ dPrompt \in PollPrompts
    /\ dThemeArg = <<>>
    /\ dRole \in BOOLEAN
    /\ dEcr \in BOOLEAN
    /\ dTheme = dThemeArg
    /\ dStatus = "none"
    /\ dResults = <<>>
    /\ dErr = "none"
    /\ jobs = <<>>
    /\ executions = <<>> /\ ePc = "start" /\ eName = <<>> /\ eStatus = "none"
    /\ ThemeIdle /\ StageIdle /\ RegistryIdle /\ FrontEndIdle
    /\ StartupIdle /\ RunsIdle

PollingNext ==
    \/ RunAllStepsStart
    \/ CallRunStep1
    \/ WaitStep1
    \/ CallRunStep2
    \/ WaitStep2
    \/ CallRunStep3
    \/ WaitStep3
    \/ RunAllStepsSummary
    \/ JobEnds
    \/ StartExecution
    \/ ReadExecutionStatus
    \/ DescribeExecutionRaises
    \/ ExecutionEnds

\* The processes keep running: a loop that is iterating gets its next
\* iteration, in which the describe call returns unless it raises first.
PollingFairness ==
    /\ WF_vars(ReadJobStatus("poll1", "step2"))
    /\ WF_vars(ReadJobStatus("poll2", "step3"))
    /\ WF_vars(ReadJobStatus("poll3", "summary"))
    /\ WF_vars(ReadExecutionStatus)

SpecPolling == PollingInit /\ [][PollingNext]_vars /\ PollingFairness

\* C1: when the job of a stage ended Failed or Stopped, no job of a later
\* stage of the run exists.
C1_FailedStageStopsRun ==
    \A i, j \in 1..Len(jobs) :
        jobs[i].status \in {"Failed", "Stopped"} => jobs[j].stage <= jobs[i].stage

\* C2: the jobs of a run are created in the order stage 1, 2, 3; the job of
\* stage N+1 exists only when the driver has taken the result of stage N,
\* whose job then is no longer in progress; at most one job is in progress.
C2_StagesInOrderOneInFlight ==
    /\ \A i \in 1..Len(jobs) : jobs[i].stage = i
    /\ Len(jobs) <= Len(dResults) + 1
    /\ \A i \in 1..(Len(jobs) - 1) : jobs[i].status # "InProgress"
    /\ Cardinality({i \in 1..Len(jobs) : jobs[i].status = "InProgress"}) <= 1

\* The third job of a run is in progress.
C2_Witness == Len(jobs) = 3 /\ jobs[3].status = "InProgress"

\* C8: the theme of a run is fixed when run_all_steps starts (the caller's
\* theme when one is given) and never changes afterwards; every job of the
\* run receives it, and the jobs' input and output prefixes contain it.
C8_ThemeThreaded ==
    /\ [](\A i \in 1..Len(jobs) :
            /\ jobs[i].theme = dTheme
            /\ jobs[i].output[4] = dTheme
            /\ jobs[i].input # <<>> => jobs[i].input[4] = dTheme)
    /\ [](dPc # "start" /\ dThemeArg # <<>> => dTheme = dThemeArg)
    /\ [][dPc # "start" => dTheme' = dTheme]_vars

\* All three jobs of a run with a derived, non-empty theme were created.
C8_Witness == Len(jobs) = 3 /\ dThemeArg = <<>> /\ dTheme # <<>>

----------------------------------------------------------------------------
\* The stage runners: main() of step1_text2pano.py, step2_decompose.py and
\* step3_compose.py, one process after the other, and the object store they
\* stage through.  Only the runners' own upload_file / download_file calls
\* are modelled, not the copies the processing service makes of the job's
\* input and output directories.

Panorama == "panorama.png"
Manifest == "decomposition_metadata.json"

\* The layer files the external LayerDecomposition.run leaves in output_dir.
LayerFiles == {"fg1.json", "fg1_mask.png"}

\* f"mesh_layer{layer_idx}.ply"
MeshName(i) ==
    CASE i = 0 -> "mesh_layer0.ply" [] i = 1 -> "mesh_layer1.ply"
      [] i = 2 -> "mesh_layer2.ply" [] i = 3 -> "mesh_layer3.ply"

\* f"mesh_layer{layer_idx}.drc"
DrcName(i) ==
    CASE i = 0 -> "mesh_layer0.drc" [] i = 1 -> "mesh_layer1.drc"
      [] i = 2 -> "mesh_layer2.drc" [] i = 3 -> "mesh_layer3.drc"

\* fname.endswith((".ply", ".drc", ".glb"))
HasMeshExtension(fname) ==
    fname \in {MeshName(i) : i \in 0..3} \cup {DrcName(i) : i \in 0..3}

\* The themes of the stage runner processes.
StageThemes == {<<"a">>}

\* The values of --s3_prefix: not given (''), or the layers prefix of the
\* process's theme written out.
PrefixArgs(theme) == {<<>>, LayersPrefix(theme)}

\* key.startswith(prefix), for a prefix that ends in "/"
IsPrefix(prefix, key) ==
    Len(prefix) <= Len(key) /\ SubSeq(key, 1, Len(prefix)) = prefix

\* The exception type, and what its message names.
Fail(type, name) ==
    /\ sPc' = "failed"
    /\ sErr' = [type |-> type, name |-> name]

\* The values of --classes (choices of the argument parser).
Classes == {"outdoor", "indoor"}

\* step2, lines 119-124: the metadata dict (the label lists are left at
\* their default, the empty list).
Metadata(args) ==
    [labels_fg1 |-> <<>>, labels_fg2 |-> <<>>, classes |-> args.classes,
     output_dir |-> "/opt/ml/processing/output"]

\* What a file of the running process's output directory holds: the
\* metadata in the manifest; the other files' bytes are not looked at.
FileBody(file) ==
    IF file = Manifest /\ sArgs.stage = 2 THEN Metadata(sArgs)
    ELSE [bytes |-> file]

\* s3_client.upload_file(local file, bucket, key) by the running process
Put(key, file) ==
    /\ store' = [k \in DOMAIN store \cup {key} |->
                    IF k = key
                    THEN [by |-> sInv, stage |-> sArgs.stage,
                          theme |-> sArgs.theme, s3_prefix |-> sArgs.s3_prefix,
                          body |-> FileBody(file),
                          writes |-> IF key \in DOMAIN store
                                     THEN store[key].writes + 1 ELSE 1]
                    ELSE store[k]]
    /\ uploads' = uploads \cup {[file |-> file, key |-> key]}

\* A process starts: arguments parsed, a fresh container.  (Without a bucket
\* the prefix is not used; it is then taken as not given.)
StartProcess(stage, theme, bucket, prefix, drc, classes, files, at) ==
    /\ sPc \in {"idle", "done", "failed"}
    /\ sInv' = sInv + 1
    /\ sArgs' = [stage |-> stage, theme |-> theme, s3_bucket |-> bucket,
                 s3_prefix |-> prefix, export_drc |-> drc, classes |-> classes]
    /\ inputDir' = files
    /\ outputDir' = {}
    /\ heavy' = "none"
    /\ sCalls' = 0
    /\ sErr' = NoError
    /\ toUpload' = {}
    /\ sPc' = at
    /\ ~bucket => prefix = <<>>
    /\ uploads' = {}
    /\ UNCHANGED store
    /\ UNCHANGED <<tvars, dvars, rvars, fvars, evars, bvars, cvars>>

\* A process started from the command line, with any arguments.
Start(stage, theme, bucket, prefix, drc, classes, files, at) ==
    /\ sInv < MaxInvocations
    /\ StartProcess(stage, theme, bucket, prefix, drc, classes, files, at)

\* The constructor of the generator / decomposer / composer loads the model
\* and main binds the object; when the constructor raises, no object is bound.
LoadModel(at, next) ==
    /\ sPc = at
    /\ \/ /\ heavy' = "loaded"
          /\ sPc' = next
          /\ UNCHANGED sErr
       \/ /\ heavy' = "none"
          /\ Fail("ExternalError", "init")
    /\ UNCHANGED <<sInv, sArgs, inputDir, outputDir, sCalls, toUpload, store, uploads>>
    /\ UNCHANGED <<tvars, dvars, rvars, fvars, evars, bvars, cvars>>

\* The external processing call: it returns and leaves `produced` in
\* output_dir, or it raises.
ExternalCall(at, next, produced) ==
    /\ sPc = at
    /\ sCalls' = sCalls + 1
    /\ \/ /\ outputDir' = outputDir \cup produced
          /\ sPc' = next
          /\ UNCHANGED sErr
       \/ /\ Fail("ExternalError", "call")
          /\ UNCHANGED outputDir
    /\ UNCHANGED <<sInv, sArgs, inputDir, heavy, toUpload, store, uploads>>
    /\ UNCHANGED <<tvars, dvars, rvars, fvars, evars, bvars, cvars>>

\* "del <object>; torch.cuda.empty_cache()", the last statements of main
Cleanup(at) ==
    /\ sPc = at
    /\ heavy' = "released"
    /\ sPc' = "done"
    /\ UNCHANGED <<sInv, sArgs, inputDir, outputDir, sCalls, sErr, toUpload, store, uploads>>
    /\ UNCHANGED <<tvars, dvars, rvars, fvars, evars, bvars, cvars>>

RECURSIVE FirstMissing(_, _)
\* The first of the files `required` (checked in this order) not in dir.
FirstMissing(required, dir) ==
    IF required = <<>> THEN "none"
    ELSE IF Head(required) \notin dir THEN Head(required)
    ELSE FirstMissing(Tail(required), dir)

\* ---- stage 1

\* Variant whose key carries a per-process segment, as a key minted from a
\* clock or a uuid would.
Step1Key_PerRun(args, file) ==
    (IF Truthy(args.s3_prefix) THEN args.s3_prefix ELSE ThemePrefix(args.theme))
        \o <<IF sInv = 1 THEN "run1" ELSE "runN", file>>

\* step1: s3_prefix = args.s3_prefix if args.s3_prefix else f"3dworlds/{theme}/"
Step1Key(args, file) ==
    (IF Truthy(args.s3_prefix) THEN args.s3_prefix ELSE ThemePrefix(args.theme))
        \o <<file>>

Step1Start ==
    \E theme \in StageThemes, bucket \in BOOLEAN :
        \E prefix \in PrefixArgs(theme) :
            Start(1, theme, bucket, prefix, FALSE, "none", {}, "s1_init")

Step1Init == LoadModel("s1_init", "s1_generate")

\* generator.generate(...): the image is in memory only
Step1Generate == ExternalCall("s1_generate", "s1_save", {})

\* panorama_image.save(output_path)
Step1Save ==
    /\ sPc = "s1_save"
    /\ \/ /\ outputDir' = outputDir \cup {Panorama}
          /\ sPc' = "s1_upload"
          /\ UNCHANGED sErr
       \/ /\ Fail("OSError", Panorama)
          /\ UNCHANGED outputDir
    /\ UNCHANGED <<sInv, sArgs, inputDir, heavy, sCalls, toUpload, store, uploads>>
    /\ UNCHANGED <<tvars, dvars, rvars, fvars, evars, bvars, cvars>>

Step1Upload ==
    /\ sPc = "s1_upload"
    /\ IF sArgs.s3_bucket
       THEN \/ /\ Put(Step1Key(sArgs, Panorama), Panorama)
               /\ sPc' = "s1_cleanup"
               /\ UNCHANGED sErr
            \/ /\ Fail("S3UploadFailedError", Panorama)
               /\ UNCHANGED <<store, uploads>>
       ELSE /\ sPc' = "s1_cleanup"
            /\ UNCHANGED <<sErr, store, uploads>>
    /\ UNCHANGED <<sInv, sArgs, inputDir, outputDir, heavy, sCalls, toUpload>>
    /\ UNCHANGED <<tvars, dvars, rvars, fvars, evars, bvars, cvars>>

Step1Cleanup == Cleanup("s1_cleanup")

\* ---- stage 2

\* Variant that uploads under the theme prefix, where stage 1 writes.
Step2Key_ThemePrefix(args, relative_path) ==
    ThemePrefix(args.theme) \o <<relative_path>>

\* step2: s3_key = f"{args.s3_prefix}{relative_path}"
Step2Key(args, relative_path) == args.s3_prefix \o <<relative_path>>

\* The files stage 2 checks for in input_dir, in this order.
Step2Required == <<Panorama>>

\* (--classes is left at its default here.)
Step2Start ==
    \E theme \in StageThemes, bucket \in BOOLEAN, files \in SUBSET {Panorama} :
        \E prefix \in PrefixArgs(theme) :
            Start(2, theme, bucket, prefix, FALSE, "outdoor", files, "s2_check")

\* The existence check, then makedirs and the copy of the panorama.
Step2CheckInput ==
    /\ sPc = "s2_check"
    /\ LET missing == FirstMissing(Step2Required, inputDir)
       IN  IF missing # "none"
           THEN /\ Fail("FileNotFoundError", missing)
                /\ UNCHANGED outputDir
           ELSE /\ outputDir' = outputDir \cup {Panorama}
                /\ sPc' = "s2_init"
                /\ UNCHANGED sErr
    /\ UNCHANGED <<sInv, sArgs, inputDir, heavy, sCalls, toUpload, store, uploads>>
    /\ UNCHANGED <<tvars, dvars, rvars, fvars, evars, bvars, cvars>>

Step2Init == LoadModel("s2_init", "s2_decompose")

Step2Decompose == ExternalCall("s2_decompose", "s2_metadata", LayerFiles)

\* Variant that goes on to the upload without writing the metadata file.
Step2SaveMetadata_NoManifest ==
    /\ sPc = "s2_metadata"
    /\ outputDir' = outputDir
    /\ toUpload' = IF sArgs.s3_bucket THEN outputDir' ELSE {}
    /\ sPc' = IF sArgs.s3_bucket THEN "s2_upload" ELSE "s2_cleanup"
    /\ UNCHANGED <<sInv, sArgs, inputDir, heavy, sCalls, sErr, store, uploads>>
    /\ UNCHANGED <<tvars, dvars, rvars, fvars, evars, bvars, cvars>>

\* json.dump(metadata) into output_dir; with a bucket, os.walk then finds
\* the files of output_dir.
Step2SaveMetadata ==
    /\ sPc = "s2_metadata"
    /\ \/ /\ outputDir' = outputDir \cup {Manifest}
          /\ toUpload' = IF sArgs.s3_bucket THEN outputDir' ELSE {}
          /\ sPc' = IF sArgs.s3_bucket THEN "s2_upload" ELSE "s2_cleanup"
          /\ UNCHANGED sErr
       \/ /\ Fail("OSError", Manifest)
          /\ UNCHANGED <<outputDir, toUpload>>
    /\ UNCHANGED <<sInv, sArgs, inputDir, heavy, sCalls, store, uploads>>
    /\ UNCHANGED <<tvars, dvars, rvars, fvars, evars, bvars, cvars>>

\* One iteration of the upload loop.  os.walk yields the files of a
\* directory in the order the file system lists them, which is arbitrary.
Step2UploadFile ==
    /\ sPc = "s2_upload"
    /\ \E file \in toUpload :
          \/ /\ Put(Step2Key(sArgs, file), file)
             /\ toUpload' = toUpload \ {file}
             /\ sPc' = IF toUpload' = {} THEN "s2_cleanup" ELSE "s2_upload"
             /\ UNCHANGED sErr
          \/ /\ Fail("S3UploadFailedError", file)
             /\ UNCHANGED <<toUpload, store, uploads>>
    /\ UNCHANGED <<sInv, sArgs, inputDir, outputDir, heavy, sCalls>>
    /\ UNCHANGED <<tvars, dvars, rvars, fvars, evars, bvars, cvars>>

Step2Cleanup == Cleanup("s2_cleanup")

\* ---- stage 3

\* step3 stage-in: s3_prefix = f"3dworlds/{args.theme}/layers/"
Step3ListPrefix(theme) == LayersPrefix(theme)

\* step3: s3_prefix = args.s3_prefix if args.s3_prefix else f"3dworlds/{theme}/"
Step3Key(args, fname) ==
    (IF Truthy(args.s3_prefix) THEN args.s3_prefix ELSE ThemePrefix(args.theme))
        \o <<fname>>

\* Variant that checks for the metadata file only.
Step3Required_MetadataOnly == <<Manifest>>

\* The files stage 3 checks for in input_dir, in this order.
Step3Required == <<Manifest, Panorama>>

Step3Start ==
    \E theme \in StageThemes, bucket \in BOOLEAN, drc \in BOOLEAN,
       files \in SUBSET {Panorama, Manifest} :
        \E prefix \in PrefixArgs(theme) :
            Start(3, theme, bucket, prefix, drc, "none", files, "s3_download")

\* The objects under the layers prefix are listed and downloaded into
\* input_dir.  An empty bucket name is rejected by the client.
Step3Download ==
    /\ sPc = "s3_download"
    /\ IF ~sArgs.s3_bucket
       THEN /\ Fail("ParamValidationError", "Bucket")
            /\ UNCHANGED inputDir
       ELSE \/ /\ inputDir' = inputDir \cup
                     {key[Len(key)] : key \in
                         {k \in DOMAIN store :
                             IsPrefix(Step3ListPrefix(sArgs.theme), k)}}
               /\ sPc' = "s3_check"
               /\ UNCHANGED sErr
            \/ /\ Fail("ClientError", "download")
               /\ UNCHANGED inputDir
    /\ UNCHANGED <<sInv, sArgs, outputDir, heavy, sCalls, toUpload, store, uploads>>
    /\ UNCHANGED <<tvars, dvars, rvars, fvars, evars, bvars, cvars>>

\* The two existence checks.
Step3CheckInput ==
    /\ sPc = "s3_check"
    /\ LET missing == FirstMissing(Step3Required, inputDir)
       IN  IF missing # "none"
           THEN Fail("FileNotFoundError", missing)
           ELSE /\ sPc' = "s3_init"
                /\ UNCHANGED sErr
    /\ UNCHANGED <<sInv, sArgs, inputDir, outputDir, heavy, sCalls, toUpload, store, uploads>>
    /\ UNCHANGED <<tvars, dvars, rvars, fvars, evars, bvars, cvars>>

Step3Init == LoadModel("s3_init", "s3_compose")

\* composer.compose(...): one .ply per layer, and one .drc with --export_drc
Step3Compose ==
    \E n \in 1..MaxMeshLayers :
        ExternalCall("s3_compose", "s3_list",
            {MeshName(i) : i \in 0..(n - 1)} \cup
            (IF sArgs.export_drc THEN {DrcName(i) : i \in 0..(n - 1)} ELSE {}))

\* output_files: the mesh files of os.listdir(output_dir)
Step3ListOutputs ==
    /\ sPc = "s3_list"
    /\ toUpload' = IF sArgs.s3_bucket
                   THEN {f \in outputDir : HasMeshExtension(f)} ELSE {}
    /\ sPc' = IF toUpload' # {} THEN "s3_upload" ELSE "s3_cleanup"
    /\ UNCHANGED <<sInv, sArgs, inputDir, outputDir, heavy, sCalls, sErr, store, uploads>>
    /\ UNCHANGED <<tvars, dvars, rvars, fvars, evars, bvars, cvars>>

\* One iteration of the upload loop (os.listdir order is arbitrary).
Step3UploadFile ==
    /\ sPc = "s3_upload"
    /\ \E fname \in toUpload :
          \/ /\ Put(Step3Key(sArgs, fname), fname)
             /\ toUpload' = toUpload \ {fname}
             /\ sPc' = IF toUpload' = {} THEN "s3_cleanup" ELSE "s3_upload"
             /\ UNCHANGED sErr
          \/ /\ Fail("S3UploadFailedError", fname)
             /\ UNCHANGED <<toUpload, store, uploads>>
    /\ UNCHANGED <<sInv, sArgs, inputDir, outputDir, heavy, sCalls>>
    /\ UNCHANGED <<tvars, dvars, rvars, fvars, evars, bvars, cvars>>

Step3Cleanup == Cleanup("s3_cleanup")

StageInit ==
    StageIdle /\ ThemeIdle /\ DriverIdle /\ RegistryIdle /\ FrontEndIdle
    /\ OthersIdle

StageNext ==
    \/ Step1Start
    \/ Step1Init
    \/ Step1Generate
    \/ Step1Save
    \/ Step1Upload
    \/ Step1Cleanup
    \/ Step2Start
    \/ Step2CheckInput
    \/ Step2Init
    \/ Step2Decompose
    \/ Step2SaveMetadata
    \/ Step2UploadFile
    \/ Step2Cleanup
    \/ Step3Start
    \/ Step3Download
    \/ Step3CheckInput
    \/ Step3Init
    \/ Step3Compose
    \/ Step3ListOutputs
    \/ Step3UploadFile
    \/ Step3Cleanup

SpecStage == StageInit /\ [][StageNext]_vars

\* ---- the stage runners as the processing jobs of a pipeline run start them

\* The stage whose container the pipeline starts next: 1, 2, 3, 1, ...
NextStage == (sInv % 3) + 1

\* run_step1: ContainerArguments --prompt --theme --seed --s3_bucket
PipelineStep1Start ==
    /\ NextStage = 1
    /\ sInv < 3 * MaxRuns
    /\ \E theme \in StageThemes :
          StartProcess(1, theme, TRUE, <<>>, FALSE, "none", {}, "s1_init")

\* run_step2: ContainerArguments --theme --classes --s3_bucket; the input
\* directory holds what the job's ProcessingInputs copied in.
PipelineStep2Start ==
    /\ NextStage = 2
    /\ \E files \in SUBSET {Panorama}, classes \in Classes :
          StartProcess(2, sArgs.theme, TRUE, <<>>, FALSE, classes, files,
                       "s2_check")

\* run_step3: ContainerArguments --theme --seed --s3_bucket [--export_drc]
PipelineStep3Start ==
    /\ NextStage = 3
    /\ \E drc \in BOOLEAN, files \in SUBSET {Panorama, Manifest} :
          StartProcess(3, sArgs.theme, TRUE, <<>>, drc, "none", files,
                       "s3_download")

PipelineNext ==
    \/ PipelineStep1Start
    \/ Step1Init
    \/ Step1Generate
    \/ Step1Save
    \/ Step1Upload
    \/ Step1Cleanup
    \/ PipelineStep2Start
    \/ Step2CheckInput
    \/ Step2Init
    \/ Step2Decompose
    \/ Step2SaveMetadata
    \/ Step2UploadFile
    \/ Step2Cleanup
    \/ PipelineStep3Start
    \/ Step3Download
    \/ Step3CheckInput
    \/ Step3Init
    \/ Step3Compose
    \/ Step3ListOutputs
    \/ Step3UploadFile
    \/ Step3Cleanup

SpecPipeline == StageInit /\ [][PipelineNext]_vars

----------------------------------------------------------------------------
\* Two pipeline runs (two calls of run_all_steps, each in its own process,
\* with a role and a bucket) that run at the same time against the same
\* bucket and the same processing service.  A stage's container is followed
\* in one step per staging operation: the copy of the job's input prefix
\* into the input directory, and the runner's uploads.

Runs == {1, 2}

\* The prompts of the runs: "a b" and "a_b" derive the same theme.
ConcurrentPrompts == {<<"a">>, <<"a", " ", "b">>, <<"a", "_", "b">>}

\* f"step1-text2pano-{int(time.time())}", f"step2-decompose-{...}",
\* f"step3-compose-{...}"
JobName(stage, timestamp) ==
    <<CASE stage = 1 -> "step1-text2pano-" [] stage = 2 -> "step2-decompose-"
        [] OTHER -> "step3-compose-",
      TimeStr(timestamp)>>

\* The job run_step<stage> creates for a theme at a time.
ClockedJob(stage, theme, timestamp) ==
    [(CASE stage = 1 -> Step1Job(theme) [] stage = 2 -> Step2Job(theme)
        [] OTHER -> Step3Job(theme))
     EXCEPT !.name = JobName(stage, timestamp)]

\* The arguments run_step<stage> passes to the container of a run.
RunArgs(r, stage) ==
    [stage |-> stage, theme |-> runs[r].theme, s3_bucket |-> TRUE,
     s3_prefix |-> <<>>, export_drc |-> FALSE,
     classes |-> IF stage = 2 THEN "outdoor" ELSE "none"]

\* The bucket after the container of run r, started with args, has uploaded
\* the objects `keys`.
Uploaded(r, args, keys) ==
    [k \in DOMAIN store \cup keys |->
        IF k \in keys
        THEN [by |-> r, stage |-> args.stage, theme |-> args.theme,
              s3_prefix |-> args.s3_prefix,
              body |-> IF k[Len(k)] = Manifest THEN Metadata(args)
                       ELSE [bytes |-> k[Len(k)]],
              writes |-> IF k \in DOMAIN store THEN store[k].writes + 1 ELSE 1]
        ELSE store[k]]

\* The position of a run after the job of a stage has ended and the poll
\* loop has returned (run_all_steps goes on whatever the job's status).
AfterStage(stage) ==
    CASE stage = 1 -> "create2" [] stage = 2 -> "create3" [] OTHER -> "done"

\* The stage whose job a run is about to create.
CreatingStage(pc) ==
    CASE pc = "create1" -> 1 [] pc = "create2" -> 2 [] pc = "create3" -> 3
      [] OTHER -> 0

\* The variables the concurrent runs leave alone.
ConcurrentFrame ==
    /\ UNCHANGED <<dPc, dPrompt, dThemeArg, dRole, dEcr, dTheme, dStatus,
                   dResults, dErr>>
    /\ UNCHANGED <<sInv, sPc, sArgs, inputDir, outputDir, heavy, sCalls, sErr,
                   toUpload, uploads>>
    /\ UNCHANGED <<fHandles, fReq, fResp>>
    /\ UNCHANGED <<tvars, rvars, evars, bvars>>

\* run_all_steps, lines 48-68
ConcurrentStart ==
    \E r \in Runs :
        /\ ConcurrentFrame
        /\ runs[r].pc = "start"
        /\ runs' = [runs EXCEPT ![r].theme = RunAllStepsTheme(runs[r].prompt, <<>>),
                                ![r].pc = "create1"]
        /\ UNCHANGED <<jobs, store, clock>>

\* run_step1/2/3 up to create_processing_job: the job name is minted from
\* the clock; the service refuses a name that is in use.
ConcurrentCreateJob ==
    \E r \in Runs :
        /\ ConcurrentFrame
        /\ LET stage == CreatingStage(runs[r].pc)
               job == ClockedJob(stage, runs[r].theme, clock)
           IN  /\ stage # 0
               /\ IF \E i \in 1..Len(jobs) : jobs[i].name = job.name
                  THEN /\ runs' = [runs EXCEPT ![r].pc = "raised",
                                               ![r].names = Append(@, job.name)]
                       /\ UNCHANGED jobs
                  ELSE /\ jobs' = Append(jobs, job)
                       /\ runs' = [runs EXCEPT
                                       ![r].pc = CASE stage = 1 -> "stage1"
                                                   [] stage = 2 -> "stagein2"
                                                   [] OTHER -> "stage3",
                                       ![r].names = Append(@, job.name)]
               /\ UNCHANGED <<store, clock>>

\* The container of stage 1: the panorama is uploaded, or the process ends
\* with an error before the upload.
ConcurrentStage1 ==
    \E r \in Runs :
        /\ ConcurrentFrame
        /\ runs[r].pc = "stage1"
        /\ \/ store' = Uploaded(r, RunArgs(r, 1),
                             {Step1Key(RunArgs(r, 1), Panorama)})
           \/ UNCHANGED store
        /\ runs' = [runs EXCEPT ![r].pc = AfterStage(1)]
        /\ UNCHANGED <<jobs, clock>>

\* The job of stage 2 starts: the objects under the job's input prefix
\* 3dworlds/{theme}/ are copied into the input directory.  Without a
\* panorama among them, main raises FileNotFoundError.
ConcurrentStage2StageIn ==
    \E r \in Runs :
        /\ ConcurrentFrame
        /\ runs[r].pc = "stagein2"
        /\ LET key == ThemePrefix(runs[r].theme) \o <<Panorama>>
           IN  IF key \in DOMAIN store
               THEN runs' = [runs EXCEPT ![r].staged = store[key].by,
                                         ![r].pc = "stage2"]
               ELSE runs' = [runs EXCEPT ![r].pc = AfterStage(2)]
        /\ UNCHANGED <<jobs, store, clock>>

\* The container of stage 2 uploads its output directory (the copy of the
\* panorama, the layer files, the metadata), or ends with an error before.
ConcurrentStage2 ==
    \E r \in Runs :
        /\ ConcurrentFrame
        /\ runs[r].pc = "stage2"
        /\ \/ store' = Uploaded(r, RunArgs(r, 2),
                             {Step2Key(RunArgs(r, 2), file) :
                                 file \in {Panorama, Manifest} \cup LayerFiles})
           \/ UNCHANGED store
        /\ runs' = [runs EXCEPT ![r].pc = AfterStage(2)]
        /\ UNCHANGED <<jobs, clock>>

\* The container of stage 3 uploads a mesh, or ends with an error before
\* (as when its input directory lacks a required file).
ConcurrentStage3 ==
    \E r \in Runs :
        /\ ConcurrentFrame
        /\ runs[r].pc = "stage3"
        /\ \/ store' = Uploaded(r, RunArgs(r, 3),
                             {Step3Key(RunArgs(r, 3), MeshName(0))})
           \/ UNCHANGED store
        /\ runs' = [runs EXCEPT ![r].pc = AfterStage(3)]
        /\ UNCHANGED <<jobs, clock>>

\* time.time() moves on.
ConcurrentTick ==
    /\ clock < MaxClock
    /\ clock' = clock + 1
    /\ UNCHANGED <<jobs, store, runs>>
    /\ ConcurrentFrame


ConcurrentInit ==
    /\ runs \in [Runs -> [pc : {"start"}, prompt : ConcurrentPrompts,
                          theme : {<<>>}, names : {<<>>}, staged : {0}]]
    /\ dPc = "idle" /\ dPrompt = <<>> /\ dThemeArg = <<>> /\ dRole = TRUE
    /\ dEcr = TRUE /\ dTheme = <<>> /\ dStatus = "none" /\ dResults = <<>>
    /\ dErr = "none" /\ jobs = <<>>
    /\ ThemeIdle /\ StageIdle /\ RegistryIdle /\ FrontEndIdle
    /\ EngineIdle /\ StartupIdle

ConcurrentNext ==
    \/ ConcurrentTick
    \/ ConcurrentStart
    \/ ConcurrentCreateJob
    \/ ConcurrentStage1
    \/ ConcurrentStage2StageIn
    \/ ConcurrentStage2
    \/ ConcurrentStage3

SpecConcurrent == ConcurrentInit /\ [][ConcurrentNext]_vars

----------------------------------------------------------------------------
\* The registry table and its writer, lambda_handler.
\*
\* A pointer (an s3 URI string) is the sequence of its tokens: the scheme
\* "s3://", the separator "/", and the names between them.

PngPointer == <<"s3://", "bucket", "/", "panorama.png">>
PlyPointer(i) ==
    <<"s3://", "bucket", "/",
      CASE i = 1 -> "mesh1.ply" [] i = 2 -> "mesh2.ply" [] i = 3 -> "mesh3.ply"
        [] i = 4 -> "mesh4.ply" [] i = 5 -> "mesh5.ply" [] OTHER -> "meshN.ply">>
\* Strings that are not "s3://bucket/key": another scheme, no key part.
HttpPointer == <<"http://", "bucket", "/", "panorama.png">>
NoKeyPointer == <<"s3://", "bucket">>

\* The values of event['theme'] and event['png_uri'] (<<>>: missing or '').
WriterThemes == {<<>>, <<"a">>}
PngUris == {<<>>, PngPointer, HttpPointer}

\* The values of event['ply_uris']: n mesh pointers, or (for the longer
\* lists) n entries of which the first is not a usable pointer.
PlyUriLists ==
    {[i \in 1..n |-> PlyPointer(i)] : n \in 0..MaxPlyUris} \cup
    {[i \in 1..n |-> IF i = 1 THEN bad ELSE PlyPointer(i)] :
        n \in 3..MaxPlyUris, bad \in {<<>>, NoKeyPointer}}

\* An event that is not a JSON object: event.get raises AttributeError.
NonDictEvent == [nondict |-> TRUE]

Events ==
    [theme : WriterThemes, png_uri : PngUris, ply_uris : PlyUriLists]
        \cup {NonDictEvent}

\* uuid.uuid4(): a value it has not returned before.  Which one is
\* immaterial, so the values are taken in a fixed order.
Uuid4(returned) ==
    LET n == Cardinality(returned)
    IN  CASE n = 0 -> "uuid-1" [] n = 1 -> "uuid-2" [] n = 2 -> "uuid-3"
          [] n = 3 -> "uuid-4" [] OTHER -> "uuid-N"

\* f'ply_uri_{i}'
PlyField(i) ==
    CASE i = 1 -> "ply_uri_1" [] i = 2 -> "ply_uri_2" [] i = 3 -> "ply_uri_3"
      [] i = 4 -> "ply_uri_4" [] i = 5 -> "ply_uri_5" [] OTHER -> "ply_uri_N"

\* The attributes every item carries.
ItemBase == {"Id", "theme", "png_uri", "created_at"}

\* Variant that leaves the ply_uri_i attributes out of the item.
BuildItem_BaseOnly(item_id, theme, png_uri, ply_uris, now) ==
    [f \in ItemBase |->
        CASE f = "Id" -> item_id
          [] f = "theme" -> theme
          [] f = "png_uri" -> png_uri
          [] OTHER -> now]

\* Variant that uses the theme as the item's Id.
BuildItem_ThemeId(item_id, theme, png_uri, ply_uris, now) ==
    [f \in ItemBase \cup {PlyField(i) : i \in 1..Len(ply_uris)} |->
        CASE f = "Id" -> theme
          [] f = "theme" -> theme
          [] f = "png_uri" -> png_uri
          [] f = "created_at" -> now
          [] OTHER -> ply_uris[CHOOSE i \in 1..Len(ply_uris) : PlyField(i) = f]]

\* Lines 56-65: the item, with ply_uris spread over ply_uri_1..ply_uri_n.
BuildItem(item_id, theme, png_uri, ply_uris, now) ==
    [f \in ItemBase \cup {PlyField(i) : i \in 1..Len(ply_uris)} |->
        CASE f = "Id" -> item_id
          [] f = "theme" -> theme
          [] f = "png_uri" -> png_uri
          [] f = "created_at" -> now
          [] OTHER -> ply_uris[CHOOSE i \in 1..Len(ply_uris) : PlyField(i) = f]]

\* Variant whose length test is off by one (len(ply_uris) <= 3 rejects).
Validate_AtLeastFour(theme, png_uri, ply_uris) ==
    IF ~Truthy(theme) THEN "theme is required"
    ELSE IF ~Truthy(png_uri) THEN "png_uri is required"
    ELSE IF ~Truthy(ply_uris) \/ Len(ply_uris) <= 3 \/ Len(ply_uris) > 4
         THEN "ply_uris must contain 3-4 URIs"
    ELSE "ok"

\* The validation of lines 34-50: the error message, or "ok".
Validate(theme, png_uri, ply_uris) ==
    IF ~Truthy(theme) THEN "theme is required"
    ELSE IF ~Truthy(png_uri) THEN "png_uri is required"
    ELSE IF ~Truthy(ply_uris) \/ Len(ply_uris) < 3 \/ Len(ply_uris) > 4
         THEN "ply_uris must contain 3-4 URIs"
    ELSE "ok"

\* table.put_item(Item=item): the item replaces any item with the same Id.
PutItem(table, item) ==
    [id \in DOMAIN table \cup {item["Id"]} |->
        IF id = item["Id"] THEN item ELSE table[id]]

\* One call of lambda_handler.  put_item either stores the item or raises
\* and stores nothing; every exception becomes the 500 response.
LambdaHandler ==
    /\ wCalls < MaxCalls
    /\ wCalls' = wCalls + 1
    /\ \E event \in Events :
        /\ wEvent' = event
        /\ IF event = NonDictEvent
           THEN /\ wResp' = [statusCode |-> 500, error |-> "Internal server error"]
                /\ UNCHANGED <<registry, minted>>
           ELSE LET error == Validate(event.theme, event.png_uri, event.ply_uris)
                IN  IF error # "ok"
                    THEN /\ wResp' = [statusCode |-> 400, error |-> error]
                         /\ UNCHANGED <<registry, minted>>
                    ELSE LET item_id == Uuid4(minted)
                             item == BuildItem(item_id, event.theme,
                                         event.png_uri, event.ply_uris,
                                         wCalls')
                         IN    /\ minted' = minted \cup {item_id}
                               /\ \/ /\ registry' = PutItem(registry, item)
                                     /\ wResp' = [statusCode |-> 200,
                                                  id |-> item_id, item |-> item]
                                  \/ /\ wResp' = [statusCode |-> 500,
                                                  error |-> "Internal server error"]
                                     /\ UNCHANGED registry
    /\ wOk' = IF wResp'.statusCode = 200 THEN wOk + 1 ELSE wOk
    /\ gScan' = NoResponse
    /\ gResp' = NoResponse
    /\ UNCHANGED <<tvars, dvars, svars, fvars, evars, bvars, cvars>>

\* ---- the reader, GET /worlds

\* s3_uri.replace('s3://', '')
RECURSIVE RemoveScheme(_)
RemoveScheme(s3_uri) ==
    IF s3_uri = <<>> THEN <<>>
    ELSE IF Head(s3_uri) = "s3://" THEN RemoveScheme(Tail(s3_uri))
    ELSE <<Head(s3_uri)>> \o RemoveScheme(Tail(s3_uri))

\* The position of the first "/" of s, or 0.
RECURSIVE FirstSlash(_, _)
FirstSlash(s, i) ==
    IF i > Len(s) THEN 0 ELSE IF s[i] = "/" THEN i ELSE FirstSlash(s, i + 1)

\* s.split('/', 1)
Split1(s) ==
    LET i == FirstSlash(s, 1)
    IN  IF i = 0 THEN <<s>>
        ELSE <<SubSeq(s, 1, i - 1), SubSeq(s, i + 1, Len(s))>>

\* What s3_client.generate_presigned_url returns for a bucket and a key.
SignedUrl(bucket, key) ==
    <<"https://">> \o bucket \o <<"/">> \o key \o <<"?X-Amz-Expires=600">>

\* Variant without the try/except around the signing call: the exception
\* leaves the function (here the value "raise").
GeneratePresignedUrl_NoCatch(s3_uri, denied) ==
    IF ~Truthy(s3_uri) \/ Head(s3_uri) # "s3://" THEN <<>>
    ELSE LET parts == Split1(RemoveScheme(s3_uri))
         IN  IF Len(parts) # 2 THEN <<>>
             ELSE IF s3_uri \in denied \/ parts[1] = <<>> \/ parts[2] = <<>>
                  THEN <<"raise">>
             ELSE SignedUrl(parts[1], parts[2])

\* generate_presigned_url(s3_uri); the signing call raises for the pointers
\* in `denied` and for an empty bucket or key.
GeneratePresignedUrl(s3_uri, denied) ==
    IF ~Truthy(s3_uri) \/ Head(s3_uri) # "s3://" THEN <<>>
    ELSE LET parts == Split1(RemoveScheme(s3_uri))
         IN  IF Len(parts) # 2 THEN <<>>
             ELSE IF s3_uri \in denied \/ parts[1] = <<>> \/ parts[2] = <<>>
                  THEN <<>>
             ELSE SignedUrl(parts[1], parts[2])

\* item.get(field), with <<>> for None
ItemGet(item, field) == IF field \in DOMAIN item THEN item[field] ELSE <<>>

\* Lines 36-40: the URLs of the non-empty ply_uri_1 .. ply_uri_4.
RECURSIVE PlyUrls(_, _, _)
PlyUrls(item, i, denied) ==
    IF i > 4 THEN <<>>
    ELSE (IF Truthy(ItemGet(item, PlyField(i)))
          THEN <<GeneratePresignedUrl(item[PlyField(i)], denied)>>
          ELSE <<>>) \o PlyUrls(item, i + 1, denied)

\* Lines 34-48: the entry of one item.
World(item, denied) ==
    [id |-> ItemGet(item, "Id"),
     theme |-> ItemGet(item, "theme"),
     png_url |-> GeneratePresignedUrl(ItemGet(item, "png_uri"), denied),
     ply_urls |-> PlyUrls(item, 1, denied),
     created_at |-> ItemGet(item, "created_at")]

\* The pointers stored in a table.
StoredPointers(table) ==
    UNION {{table[id][f] : f \in DOMAIN table[id] \ {"Id", "theme", "created_at"}} :
           id \in DOMAIN table}

\* The responses of one table.scan() call: all items, or (when the items
\* exceed the page size) a first page with a continuation key.
ScanResponses(table) ==
    {[Items |-> DOMAIN table, LastEvaluatedKey |-> FALSE]} \cup
    {[Items |-> page, LastEvaluatedKey |-> TRUE] :
        page \in (SUBSET DOMAIN table) \ {{}, DOMAIN table}}

\* Variant that answers an empty table with an error.
GetWorlds_EmptyIsError ==
    /\ gResp = NoResponse
    /\ \/ \E response \in ScanResponses(registry) :
          \E denied \in {{}} \cup {{p} : p \in StoredPointers(registry)} :
            /\ gScan' = [Items |-> response.Items,
                         LastEvaluatedKey |-> response.LastEvaluatedKey,
                         denied |-> denied]
            /\ gResp' = IF response.Items = {}
                        THEN [status |-> 404, detail |-> "No worlds"]
                        ELSE [status |-> 200,
                              worlds |-> {World(registry[id], denied) :
                                             id \in response.Items}]
       \/ /\ gScan' = [raised |-> TRUE]
          /\ gResp' = [status |-> 500, detail |-> "Internal server error"]
    /\ UNCHANGED <<registry, minted, wCalls, wOk, wEvent, wResp>>
    /\ UNCHANGED <<tvars, dvars, svars, fvars, evars, bvars, cvars>>

\* One GET /worlds.  The entries are distinct (one per scanned Id), so the
\* list `worlds` is kept as the set of its entries.  Requests do not change
\* the table, so one request is followed between two lambda_handler calls.
GetWorlds ==
    /\ gResp = NoResponse
    /\ \/ \E response \in ScanResponses(registry) :
          \E denied \in {{}} \cup {{p} : p \in StoredPointers(registry)} :
            /\ gScan' = [Items |-> response.Items,
                         LastEvaluatedKey |-> response.LastEvaluatedKey,
                         denied |-> denied]
            /\ gResp' = [status |-> 200,
                         worlds |-> {World(registry[id], denied) :
                                        id \in response.Items}]
       \/ /\ gScan' = [raised |-> TRUE]
          /\ gResp' = [status |-> 500, detail |-> "Internal server error"]
    /\ UNCHANGED <<registry, minted, wCalls, wOk, wEvent, wResp>>
    /\ UNCHANGED <<tvars, dvars, svars, fvars, evars, bvars, cvars>>

RegistryInit ==
    RegistryIdle /\ ThemeIdle /\ DriverIdle /\ StageIdle /\ FrontEndIdle
    /\ OthersIdle

RegistryNext ==
    \/ LambdaHandler
    \/ GetWorlds

SpecRegistry == RegistryInit /\ [][RegistryNext]_vars

----------------------------------------------------------------------------
\* The front-end: POST /generate and GET /status/{execution_id} (the mock
\* bodies, which are the ones that run).
\*
\* An execution id is the sequence of its tokens: "mock-" and the timestamp.

\* f"mock-{timestamp}"
MockExecutionId(timestamp) == <<"mock-", TimeStr(timestamp)>>

\* execution_id.replace('mock-', '')
RECURSIVE RemoveMock(_)
RemoveMock(execution_id) ==
    IF execution_id = <<>> THEN <<>>
    ELSE IF Head(execution_id) = "mock-" THEN RemoveMock(Tail(execution_id))
    ELSE <<Head(execution_id)>> \o RemoveMock(Tail(execution_id))

\* f"mock-execution-{...}"
MockExecutionArn(rest) == <<"mock-execution-">> \o rest

\* The prompts of the requests.
FrontEndPrompts == DriverPrompts \cup {<<>>, Demo}

\* The execution ids a client asks about: ids of the mock's form, and one of
\* another form.
AskedIds == {MockExecutionId(t) : t \in 0..MaxClock} \cup {<<"unknown">>}

\* time.time() moves on.
Tick ==
    /\ clock < MaxClock
    /\ clock' = clock + 1
    /\ UNCHANGED <<fHandles, fReq, fResp>>
    /\ UNCHANGED <<tvars, dvars, svars, rvars, evars, bvars, cvars>>

\* POST /generate, lines 53-80.  The body makes no call to the workflow
\* engine (sfn.start_execution is in the part that is commented out), so the
\* executions stay as they are.
GenerateWorld ==
    /\ \E prompt_ja \in FrontEndPrompts :
          /\ fReq' = [op |-> "generate", prompt_ja |-> prompt_ja]
          /\ fResp' = [status |-> 200,
                       body |-> [execution_arn |-> MockExecutionArn(<<TimeStr(clock)>>),
                                 execution_id |-> MockExecutionId(clock),
                                 theme |-> GenerateWorldTheme(prompt_ja),
                                 status |-> "RUNNING"]]
    /\ fHandles' = fHandles \cup {MockExecutionId(clock)}
    /\ UNCHANGED clock
    /\ UNCHANGED <<tvars, dvars, svars, rvars, evars, bvars, cvars>>

\* GET /status/{execution_id}, lines 195-211
GetGenerationStatus ==
    /\ \E execution_id \in AskedIds :
          /\ fReq' = [op |-> "status", execution_id |-> execution_id]
          /\ fResp' = [status |-> 200,
                       body |-> [execution_arn |->
                                     MockExecutionArn(RemoveMock(execution_id)),
                                 status |-> "SUCCEEDED",
                                 theme |-> MockWorld]]
    /\ UNCHANGED <<clock, fHandles>>
    /\ UNCHANGED <<tvars, dvars, svars, rvars, evars, bvars, cvars>>

FrontEndInit ==
    FrontEndIdle /\ ThemeIdle /\ DriverIdle /\ StageIdle /\ RegistryIdle
    /\ OthersIdle

FrontEndNext ==
    \/ Tick
    \/ GenerateWorld
    \/ GetGenerationStatus

SpecFrontEnd == FrontEndInit /\ [][FrontEndNext]_vars

----------------------------------------------------------------------------
\* The load of the components' modules: each reads its settings from the
\* environment when it is imported, and answers requests once it is loaded.

Settings == {"FRONTEND_URL", "DYNAMODB_TABLE_NAME", "STATE_MACHINE_ARN"}

\* The backend app (main.py), the Registry Writer (handler.py), the Result
\* Reader (routers/worlds.py) and the front-end router (routers/generate.py).
Components == {"app", "writer", "reader", "generate"}

\* The setting each component needs to do its work.
Required(component) ==
    CASE component = "app" -> "FRONTEND_URL"
      [] component = "writer" -> "DYNAMODB_TABLE_NAME"
      [] component = "reader" -> "DYNAMODB_TABLE_NAME"
      [] component = "generate" -> "STATE_MACHINE_ARN"

\* The module of a component has run to its end, or has raised.
Load(component, ok) ==
    /\ loaded[component] = "unloaded"
    /\ loaded' = [loaded EXCEPT ![component] = IF ok THEN "serving" ELSE "failed"]
    /\ UNCHANGED <<env, served>>
    /\ UNCHANGED <<tvars, dvars, svars, rvars, fvars, evars, cvars>>

\* main.py, lines 7-9: os.environ.get, then RuntimeError when it is not set
LoadMain == Load("app", "FRONTEND_URL" \in env)

\* handler.py, lines 7-9: os.environ['DYNAMODB_TABLE_NAME'] raises KeyError
LoadHandler == Load("writer", "DYNAMODB_TABLE_NAME" \in env)

\* worlds.py, lines 13-18: os.environ.get('DYNAMODB_TABLE_NAME', '')
LoadWorlds == Load("reader", TRUE)

\* generate.py, lines 17-23: os.environ.get('STATE_MACHINE_ARN', '')
LoadGenerate == Load("generate", TRUE)

\* A loaded component answers a request (with whatever status).
Serve(component) ==
    /\ loaded[component] = "serving"
    /\ served' = served \cup {component}
    /\ UNCHANGED <<env, loaded>>
    /\ UNCHANGED <<tvars, dvars, svars, rvars, fvars, evars, cvars>>

\* main.py, lines 23-25: GET /
ServeReadRoot == Serve("app")
\* handler.py, line 11: an invocation of lambda_handler
ServeLambdaHandler == Serve("writer")
\* worlds.py, lines 20-21: GET /worlds
ServeGetWorlds == Serve("reader")
\* generate.py, lines 47-48 and 189-190: POST /generate, GET /status
ServeGenerateWorld == Serve("generate")

StartupInit ==
    /\ env \in SUBSET Settings
    /\ loaded = [component \in Components |-> "unloaded"]
    /\ served = {}
    /\ ThemeIdle /\ DriverIdle /\ StageIdle /\ RegistryIdle /\ FrontEndIdle
    /\ EngineIdle /\ RunsIdle

StartupNext ==
    \/ LoadMain
    \/ LoadHandler
    \/ LoadWorlds
    \/ LoadGenerate
    \/ ServeReadRoot
    \/ ServeLambdaHandler
    \/ ServeGetWorlds
    \/ ServeGenerateWorld

SpecStartup == StartupInit /\ [][StartupNext]_vars

\* The keys the running process has uploaded.
UploadedKeys == {u.key : u \in uploads}
\* The files the running process has uploaded.
UploadedFiles == {u.file : u \in uploads}

\* C3: with no --s3_prefix given, every key stage 2 uploads for theme T lies
\* under the prefix 3dworlds/T/layers/ that stage 3 lists for T.
C3_Stage2KeysUnderLayersPrefix ==
    (sArgs.stage = 2 /\ sArgs.s3_prefix = <<>>) =>
        \A key \in UploadedKeys :
            /\ IsPrefix(<<"3dworlds", sArgs.theme, "layers">>, key)
            /\ IsPrefix(Step3ListPrefix(sArgs.theme), key)

\* C4: whenever the manifest written by a stage 2 process is in the store
\* under a prefix, every file of that process's output directory is in the
\* store under the same prefix, written by the same process.
C4_ManifestImpliesComplete ==
    \A key \in DOMAIN store :
        (sArgs.stage = 2 /\ store[key].by = sInv /\ key[Len(key)] = Manifest) =>
            \A file \in outputDir :
                LET k == SubSeq(key, 1, Len(key) - 1) \o <<file>>
                IN  k \in DOMAIN store /\ store[k].by = sInv

RequiredInputs(stage) ==
    IF stage = 2 THEN {Panorama}
    ELSE IF stage = 3 THEN {Manifest, Panorama} ELSE {}

\* The running process is past its stage-in and its existence checks.
StageInDone ==
    /\ sPc \notin {"idle", "s2_check", "s3_download", "s3_check"}
    /\ ~(sPc = "failed" /\ sErr.type \in {"ParamValidationError", "ClientError"})

\* C6: when a required upstream artifact is absent after stage-in, the stage
\* 2 or stage 3 runner ends with an error naming a missing artifact, the
\* external model was neither constructed nor called, and nothing was
\* written to the output directory or uploaded.
C6_MissingInputFailsFast ==
    (sArgs.stage \in {2, 3} /\ StageInDone
        /\ ~(RequiredInputs(sArgs.stage) \subseteq inputDir)) =>
            /\ sPc = "failed"
            /\ sErr.type = "FileNotFoundError"
            /\ sErr.name \in RequiredInputs(sArgs.stage) \ inputDir
            /\ heavy = "none"
            /\ sCalls = 0
            /\ outputDir = {}
            /\ uploads = {}

\* Stage 3 found the metadata but not the panorama.
C6_Witness ==
    /\ sArgs.stage = 3 /\ sPc = "failed"
    /\ sErr = [type |-> "FileNotFoundError", name |-> Panorama]
    /\ Manifest \in inputDir

\* C7: whenever a stage runner has ended, successfully or with an error, a
\* model it had loaded has been released.
C7_ReleasedOnEveryExit ==
    sPc \in {"done", "failed"} => heavy # "loaded"

\* The artifact name of an object: the file name its key ends in.
ArtifactName(key) == key[Len(key)]

\* C12 as stated: the key of an object is determined by the theme, the stage
\* and the artifact name of its writer alone, so the store never holds the
\* same artifact of the same stage and theme under two keys.
C12_KeysFromThemeStageName ==
    \A k1 \in DOMAIN store : \A k2 \in DOMAIN store :
        (/\ store[k1].stage = store[k2].stage
         /\ store[k1].theme = store[k2].theme
         /\ ArtifactName(k1) = ArtifactName(k2)) => k1 = k2

\* C12 as amended: the key is determined by the theme, the stage, the
\* artifact name and the --s3_prefix argument of the writer; processes that
\* agree on these write the same key, and a re-run overwrites.
C12_KeysFromThemeStageNamePrefix ==
    \A k1 \in DOMAIN store : \A k2 \in DOMAIN store :
        (/\ store[k1].stage = store[k2].stage
         /\ store[k1].theme = store[k2].theme
         /\ store[k1].s3_prefix = store[k2].s3_prefix
         /\ ArtifactName(k1) = ArtifactName(k2)) => k1 = k2

\* A second stage 1 process with the same theme and default prefix has
\* finished, and wrote the panorama over the object of the first.
C12_Witness ==
    /\ sPc = "done" /\ sArgs.stage = 1 /\ sArgs.s3_prefix = <<>>
    /\ \E key \in DOMAIN store :
          /\ store[key].by = sInv /\ store[key].writes = 2
          /\ Cardinality({k \in DOMAIN store : store[k].stage = 1}) = 1

\* C13: in a pipeline run for one theme with the default prefixes, the three
\* stages write pairwise disjoint sets of keys: an object written by one
\* stage is never deleted and never written by another stage.
C13_StagesWriteOwnKeys ==
    [][\A k \in DOMAIN store :
            /\ k \in DOMAIN store'
            /\ store'[k].stage = store[k].stage]_vars

\* Stage 1, stage 2 and stage 3 of one run have each written an object.
C13_Witness ==
    /\ sInv = 3
    /\ {store[k].stage : k \in DOMAIN store} = {1, 2, 3}
    /\ \A k \in DOMAIN store : store[k].s3_prefix = <<>>

\* The last lambda_handler call had an event with a theme and a png_uri.
WriterEventOk ==
    /\ wCalls > 0 /\ wEvent # NonDictEvent
    /\ wEvent.theme # <<>> /\ wEvent.png_uri # <<>>

\* C14 as stated: with a theme and a png_uri, lambda_handler answers 400 to
\* a ply_uris list of fewer than 3 or more than 4 entries and 200 to a list
\* of 3 or 4 entries; without a theme or a png_uri it answers 400.
C14_ThreeOrFourPlyUris ==
    (wCalls > 0 /\ wEvent # NonDictEvent) =>
        IF ~WriterEventOk THEN wResp.statusCode = 400
        ELSE IF Len(wEvent.ply_uris) \in {3, 4} THEN wResp.statusCode = 200
        ELSE wResp.statusCode = 400

\* C14 as amended: a list of 3 or 4 entries is never answered 400; the
\* answer is 200, or 500 when the write to the table raised.
C14_ThreeOrFourPlyUrisPassValidation ==
    (wCalls > 0 /\ wEvent # NonDictEvent) =>
        IF ~WriterEventOk THEN wResp.statusCode = 400
        ELSE IF Len(wEvent.ply_uris) \in {3, 4}
             THEN wResp.statusCode \in {200, 500}
        ELSE wResp.statusCode = 400

\* A call with exactly 3 entries was answered 200.
C14_Witness ==
    /\ WriterEventOk /\ Len(wEvent.ply_uris) = 3 /\ wResp.statusCode = 200

\* C15: a lambda_handler call either adds exactly one item, which carries
\* Id, theme, png_uri, created_at and ply_uri_1..ply_uri_n with the values
\* of the event, and answers 200, or leaves the table as it was and answers
\* 400 or 500; no step changes or removes an item the table holds.
C15_AllOrNothingInsert ==
    [][/\ \A id \in DOMAIN registry :
            id \in DOMAIN registry' /\ registry'[id] = registry[id]
       /\ wCalls' = wCalls + 1 =>
            \/ /\ wResp'.statusCode = 200
               /\ \E id \in DOMAIN registry' \ DOMAIN registry :
                    /\ DOMAIN registry' = DOMAIN registry \cup {id}
                    /\ id = wResp'.id
                    /\ DOMAIN registry'[id] = ItemBase \cup
                          {PlyField(i) : i \in 1..Len(wEvent'.ply_uris)}
                    /\ registry'[id]["Id"] = id
                    /\ registry'[id]["theme"] = wEvent'.theme
                    /\ registry'[id]["png_uri"] = wEvent'.png_uri
                    /\ \A i \in 1..Len(wEvent'.ply_uris) :
                          registry'[id][PlyField(i)] = wEvent'.ply_uris[i]
            \/ /\ wResp'.statusCode \in {400, 500}
               /\ registry' = registry]_vars

\* After a successful call, a call with a valid event was answered 500 and
\* the table still holds the one item.
C15_Witness ==
    /\ wCalls = 2 /\ wOk = 1 /\ wResp.statusCode = 500
    /\ WriterEventOk /\ Len(wEvent.ply_uris) = 4
    /\ Cardinality(DOMAIN registry) = 1

\* C16: the table holds one item per successful lambda_handler call, each
\* under the id the call minted, which no earlier call had minted.
C16_FreshIdPerCall ==
    /\ Cardinality(DOMAIN registry) = wOk
    /\ DOMAIN registry \subseteq minted
    /\ wResp.statusCode = 200 => wResp.id \in DOMAIN registry

\* Two successful calls with the same theme and the same pointers.
C16_Witness ==
    /\ wOk = 2
    /\ \E id1 \in DOMAIN registry : \E id2 \in DOMAIN registry :
          /\ id1 # id2
          /\ registry[id1]["theme"] = registry[id2]["theme"]
          /\ registry[id1]["png_uri"] = registry[id2]["png_uri"]
          /\ registry[id1]["ply_uri_1"] = registry[id2]["ply_uri_1"]
          /\ DOMAIN registry[id1] = DOMAIN registry[id2]

\* A GET /worlds was answered, and its table.scan() returned.
ScanReturned == gResp # NoResponse /\ "Items" \in DOMAIN gScan

\* A pointer that is not of the form s3://bucket/key.
Malformed(pointer) ==
    \/ pointer = <<>>
    \/ pointer[1] # "s3://"
    \/ \A i \in 1..Len(pointer) : pointer[i] # "/"

\* The URL field a stored pointer is to give: empty when the pointer is
\* malformed or signing raised, else the signed URL of its bucket and key.
ExpectedUrl(pointer, denied) ==
    IF Malformed(pointer) \/ pointer \in denied THEN <<>>
    ELSE <<"https://", pointer[2], "/", pointer[4], "?X-Amz-Expires=600">>

\* The non-empty ones of the first four ply pointers of an item, in order.
RECURSIVE PlyPointersFrom(_, _)
PlyPointersFrom(item, i) ==
    IF i > 4 THEN <<>>
    ELSE (IF PlyField(i) \in DOMAIN item /\ item[PlyField(i)] # <<>>
          THEN <<item[PlyField(i)]>> ELSE <<>>) \o PlyPointersFrom(item, i + 1)

\* The listing has, for each of the items `ids`, an entry with the item's id,
\* theme and time and with one URL field per pointer, empty exactly for the
\* pointers that are malformed or could not be signed.
ListedDegraded(ids) ==
    \A id \in ids :
        \E w \in gResp.worlds :
            LET item == registry[id]
                plys == PlyPointersFrom(item, 1)
            IN  /\ w.id = id
                /\ w.theme = item["theme"]
                /\ w.created_at = item["created_at"]
                /\ w.png_url = ExpectedUrl(item["png_uri"], gScan.denied)
                /\ Len(w.ply_urls) = Len(plys)
                /\ \A j \in 1..Len(plys) :
                      w.ply_urls[j] = ExpectedUrl(plys[j], gScan.denied)

\* C17: when a stored pointer is malformed or its signing raises, GET /worlds
\* still answers 200 with an entry for every item of the table, in which
\* that one URL field is empty and every other field and URL is intact.
C17_BadPointerDegradesOneField ==
    (/\ ScanReturned
     /\ \/ gScan.denied # {}
        \/ \E pointer \in StoredPointers(registry) :
                pointer # <<>> /\ Malformed(pointer)) =>
        /\ gResp.status = 200
        /\ ListedDegraded(DOMAIN registry)

\* C18 as stated: GET /worlds on an empty table answers {worlds: []}.
C18_EmptyRegistryEmptyList ==
    (gResp # NoResponse /\ registry = <<>>) =>
        gResp = [status |-> 200, worlds |-> {}]

\* C18 as amended: GET /worlds on an empty table answers {worlds: []} when
\* the scan of the table returns, and 500 when the scan raises.
C18_EmptyRegistryEmptyListOrScanError ==
    (gResp # NoResponse /\ registry = <<>>) =>
        IF ScanReturned THEN gResp = [status |-> 200, worlds |-> {}]
        ELSE gResp.status = 500

\* An empty table was listed and the answer is the empty list.
C18_Witness ==
    /\ registry = <<>> /\ ScanReturned /\ gScan.Items = {}
    /\ gResp.status = 200 /\ gResp.worlds = {}

\* C19: GET /worlds answers with exactly one entry for every item of the
\* table, also when the scan delivers a first page with a continuation key.
C19_OneEntryPerRecord ==
    ScanReturned =>
        /\ gResp.status = 200
        /\ {w.id : w \in gResp.worlds} = DOMAIN registry
        /\ Cardinality(gResp.worlds) = Cardinality(DOMAIN registry)

\* C20: GET /status/{execution_id} for an id that POST /generate never
\* returned is answered with the NotFound error (404), not with a status.
C20_UnknownHandleNotFound ==
    (fReq # NoEvent /\ fReq.op = "status"
        /\ fReq.execution_id \notin fHandles) =>
            fResp.status = 404

\* C21: every POST /generate that is answered 200 has started an execution
\* for the theme it derived, and answers with status RUNNING and the handle
\* of that execution; every handle returned names a started execution.
C21_HandleMeansRunStarted ==
    /\ (fReq # NoEvent /\ fReq.op = "generate" /\ fResp.status = 200) =>
            /\ fResp.body.status = "RUNNING"
            /\ fResp.body.execution_id \in DOMAIN executions
    /\ fHandles \subseteq DOMAIN executions

\* C22: the manifest a stage 2 process has stored lists the theme and the
\* scene class the process was started with.
C22_ManifestListsThemeAndClasses ==
    \A key \in DOMAIN store :
        (/\ sArgs.stage = 2 /\ store[key].by = sInv
         /\ ArtifactName(key) = Manifest) =>
            LET manifest == store[key].body
            IN  /\ "classes" \in DOMAIN manifest
                /\ manifest.classes = sArgs.classes
                /\ "theme" \in DOMAIN manifest
                /\ manifest.theme = sArgs.theme

\* The stored manifest of a stage 2 process lists its scene class.
ManifestListsClasses ==
    \A key \in DOMAIN store :
        (/\ sArgs.stage = 2 /\ store[key].by = sInv
         /\ ArtifactName(key) = Manifest) =>
            /\ "classes" \in DOMAIN store[key].body
            /\ store[key].body.classes = sArgs.classes

\* C23: a component whose required setting is not set fails while loading:
\* it never reaches the state in which it answers requests, and it answers
\* none.
C23_MissingSettingAbortsLoad ==
    \A component \in DOMAIN loaded :
        Required(component) \notin env =>
            /\ loaded[component] # "serving"
            /\ component \notin served

\* The components that read their setting without a default do fail.
MissingSettingAbortsAppAndWriter ==
    \A component \in DOMAIN loaded \cap {"app", "writer"} :
        Required(component) \notin env =>
            /\ loaded[component] # "serving"
            /\ component \notin served

\* A poll loop is being iterated.
PollPcs == {"poll1", "poll2", "poll3"}

\* C24: the poll loops of run_step1/2/3 and of start_execution leave by a
\* return only on a terminal status (Completed, Failed, Stopped; SUCCEEDED,
\* FAILED, TIMED_OUT, ABORTED); they go on as long as the status read is
\* not terminal, however often that is; and once the job or execution is
\* in a terminal status, the loop ends.
C24_PollLoopEndsOnTerminalOnly ==
    /\ [][(dPc \in PollPcs /\ dPc' # dPc /\ dPc' # "raised") =>
            /\ dStatus' \in {"Completed", "Failed", "Stopped"}
            /\ jobs[Len(jobs)].status = dStatus']_vars
    /\ [][(ePc = "poll" /\ ePc' = "returned") =>
            /\ eStatus' \in {"SUCCEEDED", "FAILED", "TIMED_OUT", "ABORTED"}
            /\ executions[eName] = eStatus']_vars
    /\ [][(dPc \in PollPcs /\ dErr' = dErr /\ dStatus' = "InProgress") =>
            dPc' = dPc]_vars
    /\ [][(ePc = "poll" /\ ePc' # "raised" /\ eStatus' = "RUNNING") =>
            ePc' = "poll"]_vars
    /\ \A at \in PollPcs :
          (dPc = at /\ jobs[Len(jobs)].status \in {"Completed", "Failed", "Stopped"})
              ~> (dPc # at)
    /\ (ePc = "poll" /\ executions[eName] \in
                {"SUCCEEDED", "FAILED", "TIMED_OUT", "ABORTED"})
          ~> (ePc # "poll")

\* The third poll loop of the driver returned on Stopped after it had read
\* a status, and start_execution returned on TIMED_OUT.
C24_Witness ==
    /\ dPc \in {"summary", "done"} /\ dStatus = "Stopped" /\ Len(dResults) = 3
    /\ ePc = "returned" /\ eStatus = "TIMED_OUT"

\* C25: the pair run_step1/2/3 returned for a job is (job_name, output_uri)
\* exactly when the job's final status is Completed, and (None, None) when
\* it is Failed or Stopped (a job that ran into its MaxRuntimeInSeconds is
\* Stopped).
C25_ReturnsPairIffCompleted ==
    \A i \in 1..Len(dResults) :
        /\ jobs[i].status \in {"Completed", "Failed", "Stopped"}
        /\ jobs[i].status = "Completed" =>
                dResults[i] = [job |-> jobs[i].name, output |-> jobs[i].output]
        /\ jobs[i].status \in {"Failed", "Stopped"} =>
                dResults[i] = [job |-> "None", output |-> <<>>]
        /\ dResults[i].job # "None" <=> jobs[i].status = "Completed"

\* run_step1 returned for a Completed job and run_step2 for a Stopped one.
C25_Witness ==
    /\ Len(dResults) >= 2
    /\ jobs[1].status = "Completed" /\ dResults[1].job = "step1-text2pano"
    /\ jobs[2].status = "Stopped" /\ dResults[2].job = "None"

\* The call has not reached the role check of a run_stepN yet.
BeforeCreate == dPc \in {"start", "step1", "main1", "main2", "main3"}

\* C26 as stated: without a role, run_step1/2/3 are left by ValueError and
\* no processing job exists, whether they are called by run_all_steps or on
\* their own.
C26_NoRoleNoJob ==
    ~dRole =>
        /\ jobs = <<>>
        /\ BeforeCreate \/ (dPc = "raised" /\ dErr = "ValueError")

\* C26 as amended: without a role no processing job is created and the
\* call is left by an exception: ValueError, or, when no image URI was
\* supplied either, the error of the account lookup that comes first.
C26_NoRoleNoJobAnyError ==
    ~dRole =>
        /\ jobs = <<>>
        /\ \/ BeforeCreate
           \/ dPc = "raised" /\ dErr = "ValueError"
           \/ dPc = "raised" /\ dErr = "ClientError" /\ ~dEcr

\* A run_stepN called on its own without a role has raised ValueError and
\* no job exists.
C26_Witness ==
    /\ ~dRole /\ dThemeArg = Demo /\ dPc = "raised" /\ dErr = "ValueError"
    /\ jobs = <<>>

\* C27: when the themes of two runs differ, no object is written by stage
\* runners of both runs: an object that changes its writing run keeps its
\* theme (so the two runs have the same theme).
C27_DifferentThemesDisjointKeys ==
    [][\A k \in DOMAIN store :
            store'[k].by # store[k].by => store'[k].theme = store[k].theme]_vars

\* The stages 1 and 3 of runs with different themes write different keys.
Stage1And3KeysPerTheme ==
    [][\A k \in DOMAIN store :
            (store'[k].by # store[k].by /\ store'[k].stage \in {1, 3}) =>
                store'[k].theme = store[k].theme]_vars

\* C28: the panorama that stage 2 of a run has staged in was written by
\* stage 1 of that run, never by the other run.
C28_Stage2ReadsOwnPanorama ==
    \A r \in DOMAIN runs : runs[r].staged \in {0, r}

\* C29: the job names two runs have minted for the same stage differ.
C29_JobNamesUnique ==
    \A r1 \in DOMAIN runs : \A r2 \in DOMAIN runs :
        r1 # r2 =>
            \A k \in 1..Min(Len(runs[r1].names), Len(runs[r2].names)) :
                runs[r1].names[k] # runs[r2].names[k]

\* The entry GET /worlds returned for the record the last lambda_handler
\* call wrote has one URL per entry of the event's ply_uris, the i-th minted
\* from the i-th entry, and the theme and id that were written.
RoundTrip ==
    \E w \in gResp.worlds :
        /\ w.id = wResp.id
        /\ w.theme = wEvent.theme
        /\ Len(w.ply_urls) = Len(wEvent.ply_uris)
        /\ \A i \in 1..Len(wEvent.ply_uris) :
              w.ply_urls[i] = ExpectedUrl(wEvent.ply_uris[i], gScan.denied)

\* The record of the last accepted event is among the items the scan of a
\* following GET /worlds returned.
RecordListed ==
    /\ wResp.statusCode = 200
    /\ ScanReturned /\ wResp.id \in gScan.Items

\* C30: for every event lambda_handler accepts, the entry GET /worlds
\* returns for the resulting record has as many mesh URLs as the event had
\* mesh pointers, in the same order, and the theme and id written.
C30_WriterReaderRoundTrip ==
    RecordListed => RoundTrip

\* The round trip of the events whose ply_uris entries are all non-empty.
RoundTripOfNonEmptyPointers ==
    (RecordListed /\ \A i \in 1..Len(wEvent.ply_uris) :
                        wEvent.ply_uris[i] # <<>>) => RoundTrip

====
